---------------------------- MODULE Spec2Model ----------------------------
(***************************************************************************)
(* A model of the sci-file crate: the piecewise-linear Interpolator of     *)
(* src/interpolator.rs and create_incremented_directory of src/file_io.rs. *)
(*                                                                         *)
(* f64 values are modelled as sign-magnitude records                       *)
(*     [k |-> "nan" | "inf" | "fin", s |-> sign bit, n |-> num, d |-> den] *)
(* so that NaN, the two infinities and the two zeros are distinct values,  *)
(* as they are for f64.  Finite values are exact rationals n/d in lowest   *)
(* terms: rounding of the mantissa is not modelled, arithmetic on the      *)
(* special values follows IEEE 754.                                        *)
(***************************************************************************)
EXTENDS Integers, Sequences, FiniteSets, TLC

(***************************************************************************)
(* f64                                                                     *)
(***************************************************************************)
RECURSIVE Gcd(_, _)
Gcd(a, b) == IF b = 0 THEN a ELSE Gcd(b, a % b)

\* The finite value (-1)^s * n/d, in lowest terms.
Fin(s, n, d) ==
    LET g == Gcd(n, d)
    IN  [k |-> "fin", s |-> s, n |-> n \div g, d |-> d \div g]

Inf(s) == [k |-> "inf", s |-> s, n |-> 0, d |-> 1]

\* A NaN with sign bit s (the payload is not modelled).
NaNs(s) == [k |-> "nan", s |-> s, n |-> 0, d |-> 1]

\* f64::NAN, and the NaN an arithmetic operation produces.
NAN == NaNs(0)

PosZero == Fin(0, 0, 1)
NegZero == Fin(1, 0, 1)
One == Fin(0, 1, 1)

\* f64::is_nan
is_nan(a) == a.k = "nan"

IsZero(a) == a.k = "fin" /\ a.n = 0

\* The signed numerator of a finite value.
Num(a) == IF a.s = 1 THEN 0 - a.n ELSE a.n

Xor(s, t) == IF s = t THEN 0 ELSE 1

\* The operator < of f64 (PartialOrd): false when either side is NaN, and
\* -0.0 and +0.0 compare equal.
Lt(a, b) ==
    IF is_nan(a) \/ is_nan(b) THEN FALSE
    ELSE IF a.k = "inf" THEN a.s = 1 /\ ~(b.k = "inf" /\ b.s = 1)
    ELSE IF b.k = "inf" THEN b.s = 0
    ELSE Num(a) * b.d < Num(b) * a.d

\* The operator > of f64.
Gt(a, b) == Lt(b, a)

\* The position of a value in the order of f64::total_cmp:
\* -NaN < -inf < negative finite < -0 < +0 < positive finite < +inf < +NaN.
Rank(a) ==
    IF a.k = "nan" THEN (IF a.s = 1 THEN 0 ELSE 8)
    ELSE IF a.k = "inf" THEN (IF a.s = 1 THEN 1 ELSE 7)
    ELSE IF a.n = 0 THEN (IF a.s = 1 THEN 3 ELSE 5)
    ELSE (IF a.s = 1 THEN 2 ELSE 6)

\* f64::total_cmp: "Less", "Equal" or "Greater".
total_cmp(a, b) ==
    IF Rank(a) < Rank(b) THEN "Less"
    ELSE IF Rank(a) > Rank(b) THEN "Greater"
    ELSE IF a.k = "fin" /\ Num(a) * b.d < Num(b) * a.d THEN "Less"
    ELSE IF a.k = "fin" /\ Num(a) * b.d > Num(b) * a.d THEN "Greater"
    ELSE "Equal"

Neg(a) == [a EXCEPT !.s = 1 - a.s]

\* a + b of f64.
Add(a, b) ==
    IF is_nan(a) \/ is_nan(b) THEN NAN
    ELSE IF a.k = "inf" /\ b.k = "inf" THEN (IF a.s = b.s THEN a ELSE NAN)
    ELSE IF a.k = "inf" THEN a
    ELSE IF b.k = "inf" THEN b
    ELSE LET m == Num(a) * b.d + Num(b) * a.d
         IN  IF m = 0 THEN (IF a.s = 1 /\ b.s = 1 THEN NegZero ELSE PosZero)
             ELSE IF m < 0 THEN Fin(1, 0 - m, a.d * b.d)
             ELSE Fin(0, m, a.d * b.d)

\* a - b of f64.
Sub(a, b) == Add(a, Neg(b))

\* a * b of f64.
Mul(a, b) ==
    IF is_nan(a) \/ is_nan(b) THEN NAN
    ELSE IF (a.k = "inf" /\ IsZero(b)) \/ (IsZero(a) /\ b.k = "inf") THEN NAN
    ELSE IF a.k = "inf" \/ b.k = "inf" THEN Inf(Xor(a.s, b.s))
    ELSE Fin(Xor(a.s, b.s), a.n * b.n, a.d * b.d)

\* a / b of f64.
Div(a, b) ==
    IF is_nan(a) \/ is_nan(b) THEN NAN
    ELSE IF a.k = "inf" /\ b.k = "inf" THEN NAN
    ELSE IF a.k = "inf" THEN Inf(Xor(a.s, b.s))
    ELSE IF b.k = "inf" THEN Fin(Xor(a.s, b.s), 0, 1)
    ELSE IF IsZero(b) THEN (IF IsZero(a) THEN NAN ELSE Inf(Xor(a.s, b.s)))
    ELSE Fin(Xor(a.s, b.s), a.n * b.d, a.d * b.n)


(***************************************************************************)
(* Bounds and the values the model draws from                              *)
(***************************************************************************)
\* The longest x_vals / y_vals sequence handed to init by a 1-D caller.
MaxLen == 3

\* The longest sequence handed to init by an n-D caller, and the largest
\* dimension of its y vectors.
MaxLenND == 2
MaxDim == 2

\* run_0 .. run_MaxRun are the entries the modelled base directory can hold.
MaxRun == 2

\* RECURSIVE helper: all sequences over S of length at most n.
RECURSIVE SeqsUpTo(_, _)
SeqsUpTo(S, n) ==
    IF n = 0 THEN {<<>>}
    ELSE LET shorter == SeqsUpTo(S, n - 1)
         IN  shorter \cup {Append(t, v) : t \in {u \in shorter : Len(u) = n - 1}, v \in S}

\* Sample coordinates a caller may store: init validates nothing, so the two
\* zeros and NaN are among them.
TableX == {Fin(1, 1, 1), NegZero, PosZero, One, NAN}

\* Sample coordinates of the n-D tables.
TableXND == {Fin(1, 1, 1), PosZero, One}

\* Sample values a caller may store (1-D).
TableY == {One, Fin(0, 3, 1)}

\* Query values.
QueryX ==
    {NaNs(0), NaNs(1), Fin(1, 2, 1), Fin(1, 1, 1), Fin(1, 1, 2), NegZero,
     PosZero, Fin(0, 1, 2), One}

(***************************************************************************)
(* State                                                                   *)
(***************************************************************************)
VARIABLES
    x_vals,     \* Interpolator::x_vals
    y_vals,     \* Interpolator::y_vals
    search,     \* which slice::binary_search_by the build links, fixed at start
    last,       \* the last call on the interpolator and what it returned
    loaded      \* the arguments of the last init (empty after new)

ivars == <<x_vals, y_vals, search, last, loaded>>

VARIABLES
    path,       \* what `path` is on the filesystem: "absent", "dir" or "file"
    runs,       \* what each path/run_i is, i in 0..MaxRun
    pc,         \* where each caller of create_incremented_directory stands
    idx,        \* each caller's loop variable i
    pre,        \* the filesystem as it was when each caller's call began
    ret,        \* what each caller's last call returned
    returned,   \* the n of every run_n returned so far, in order of return
    fresh       \* whether the base directory started with no run_* entry

dvars == <<path, runs, pc, idx, pre, ret, returned, fresh>>

vars == <<ivars, dvars>>

\* Vec indexing is 0-based; sequences are 1-based.
At(v, i) == v[i + 1]

(***************************************************************************)
(* slice::binary_search_by(|val| val.total_cmp(&x))                        *)
(*                                                                         *)
(* The standard library has shipped two algorithms.  They agree on a       *)
(* sorted slice without duplicates and may differ otherwise (the result is *)
(* then unspecified), so the model carries both and the build picks one.   *)
(***************************************************************************)
SearchOk(i) == [ok |-> TRUE, i |-> i]
SearchErr(i) == [ok |-> FALSE, i |-> i]

\* Since Rust 1.82: halve `size` around `base`, compare once more at the end.
RECURSIVE BaseAfterLoop(_, _, _, _)
BaseAfterLoop(xs, x, base, size) ==
    IF size > 1
    THEN LET half == size \div 2
             mid == base + half
             cmp == total_cmp(At(xs, mid), x)
         IN  BaseAfterLoop(xs, x, IF cmp = "Greater" THEN base ELSE mid, size - half)
    ELSE base

BinarySearchBranchless(xs, x) ==
    IF Len(xs) = 0 THEN SearchErr(0)
    ELSE LET base == BaseAfterLoop(xs, x, 0, Len(xs))
             cmp == total_cmp(At(xs, base), x)
         IN  IF cmp = "Equal" THEN SearchOk(base)
             ELSE SearchErr(base + (IF cmp = "Less" THEN 1 ELSE 0))

\* Rust 1.52 to 1.81: narrow [left, right), return at the first Equal.
RECURSIVE BinarySearchNarrow(_, _, _, _)
BinarySearchNarrow(xs, x, left, right) ==
    IF left < right
    THEN LET mid == left + ((right - left) \div 2)
             cmp == total_cmp(At(xs, mid), x)
         IN  IF cmp = "Equal" THEN SearchOk(mid)
             ELSE IF cmp = "Less" THEN BinarySearchNarrow(xs, x, mid + 1, right)
             ELSE BinarySearchNarrow(xs, x, left, mid)
    ELSE SearchErr(left)

binary_search_by(impl, xs, x) ==
    IF impl = "branchless" THEN BinarySearchBranchless(xs, x)
    ELSE BinarySearchNarrow(xs, x, 0, Len(xs))

(***************************************************************************)
(* What a call returns                                                     *)
(***************************************************************************)
Ok(x, y) == [kind |-> "Ok", x |-> x, y |-> y]
ErrNaN == [kind |-> "NaN"]
ErrOutOfBounds(x, lo, hi) == [kind |-> "OutOfBounds", x |-> x, x_min |-> lo, x_max |-> hi]
\* The call does not return: an index out of range (or `i - 1` below zero) panics.
Panic == [kind |-> "Panic"]
Passed == [kind |-> "Passed"]

\* sanity_check reporting x_vals[0] as x_max.
sanity_check_MinAsMax(x, xs) ==
    IF is_nan(x) THEN ErrNaN
    ELSE IF Len(xs) = 0 THEN Panic
    ELSE IF Lt(x, At(xs, 0)) \/ Gt(x, At(xs, Len(xs) - 1))
         THEN ErrOutOfBounds(x, At(xs, 0), At(xs, 0))
    ELSE Passed

\* sanity_check with the bounds check ahead of the NaN check.
sanity_check_BoundsFirst(x, xs) ==
    IF Len(xs) = 0 THEN Panic
    ELSE IF Lt(x, At(xs, 0)) \/ Gt(x, At(xs, Len(xs) - 1))
         THEN ErrOutOfBounds(x, At(xs, 0), At(xs, Len(xs) - 1))
    ELSE IF is_nan(x) THEN ErrNaN
    ELSE Passed

\* sanity_check that answers an empty table with a typed error.
sanity_check_EmptyGuard(x, xs) ==
    IF is_nan(x) THEN ErrNaN
    ELSE IF Len(xs) = 0 THEN ErrOutOfBounds(x, x, x)
    ELSE IF Lt(x, At(xs, 0)) \/ Gt(x, At(xs, Len(xs) - 1))
         THEN ErrOutOfBounds(x, At(xs, 0), At(xs, Len(xs) - 1))
    ELSE Passed

sanity_check(x, xs) ==
    IF is_nan(x) THEN ErrNaN
    ELSE IF Len(xs) = 0 THEN Panic
    ELSE IF Lt(x, At(xs, 0)) \/ Gt(x, At(xs, Len(xs) - 1))
         THEN ErrOutOfBounds(x, At(xs, 0), At(xs, Len(xs) - 1))
    ELSE Passed

\* delta with the lower sample left out of the denominator.
DeltaOverUpper(x, prev_x, next_x) == Div(Sub(x, prev_x), next_x)

\* (x - prev_x) / (next_x - prev_x)
Delta(x, prev_x, next_x) == Div(Sub(x, prev_x), Sub(next_x, prev_x))

\* (1. - delta) * prev + delta * next
Blend(delta, prev, next) == Add(Mul(Sub(One, delta), prev), Mul(delta, next))

\* interpolate_1d without the exact-match arm: Ok(i) is bracketed like Err(i).
interpolate_1d_NoExactArm(impl, x, xs, ys) ==
    LET i == binary_search_by(impl, xs, x).i
    IN  IF i = 0 \/ i >= Len(xs) \/ i >= Len(ys) THEN Panic
        ELSE LET prev_x == At(xs, i - 1)
                 next_x == At(xs, i)
                 delta == Delta(x, prev_x, next_x)
             IN  Ok(next_x, Blend(delta, At(ys, i - 1), At(ys, i)))

\* Interpolation for 1-dimensional array.
interpolate_1d(impl, x, xs, ys) ==
    LET r == binary_search_by(impl, xs, x)
        i == r.i
    IN  IF r.ok
        THEN IF i < Len(ys) THEN Ok(At(xs, i), At(ys, i)) ELSE Panic
        ELSE IF i = 0 \/ i >= Len(xs) \/ i >= Len(ys) THEN Panic
        ELSE LET prev_x == At(xs, i - 1)
                 next_x == At(xs, i)
                 delta == Delta(x, prev_x, next_x)
             IN  Ok(next_x, Blend(delta, At(ys, i - 1), At(ys, i)))

\* Interpolator<f64>::interpolate
Interpolate1D(impl, x, xs, ys) ==
    LET c == sanity_check(x, xs)
    IN  IF c.kind = "Passed" THEN interpolate_1d(impl, x, xs, ys) ELSE c

\* prev_y.iter().zip(next_y.iter()).map(|(prev, next)| ...).collect()
ZipBlend(delta, prev_y, next_y) ==
    LET n == IF Len(prev_y) < Len(next_y) THEN Len(prev_y) ELSE Len(next_y)
    IN  [j \in 1..n |-> Blend(delta, prev_y[j], next_y[j])]

\* The n-D interpolation with the weights of the two samples exchanged.
interpolate_WeightsSwapped(impl, x, xs, ys) ==
    LET r == binary_search_by(impl, xs, x)
        i == r.i
    IN  IF r.ok
        THEN IF i < Len(ys) THEN Ok(At(xs, i), At(ys, i)) ELSE Panic
        ELSE IF i = 0 \/ i >= Len(xs) \/ i >= Len(ys) THEN Panic
        ELSE LET prev_x == At(xs, i - 1)
                 next_x == At(xs, i)
                 delta == Delta(x, prev_x, next_x)
             IN  Ok(next_x, ZipBlend(delta, At(ys, i), At(ys, i - 1)))

\* Interpolation for n-dimensional array.
interpolate(impl, x, xs, ys) ==
    LET r == binary_search_by(impl, xs, x)
        i == r.i
    IN  IF r.ok
        THEN IF i < Len(ys) THEN Ok(At(xs, i), At(ys, i)) ELSE Panic
        ELSE IF i = 0 \/ i >= Len(xs) \/ i >= Len(ys) THEN Panic
        ELSE LET prev_x == At(xs, i - 1)
                 next_x == At(xs, i)
                 delta == Delta(x, prev_x, next_x)
                 prev_y == At(ys, i - 1)
                 next_y == At(ys, i)
             IN  Ok(next_x, ZipBlend(delta, prev_y, next_y))

\* Interpolator<Vec<f64>>::interpolate
InterpolateND(impl, x, xs, ys) ==
    LET c == sanity_check(x, xs)
    IN  IF c.kind = "Passed" THEN interpolate(impl, x, xs, ys) ELSE c

(***************************************************************************)
(* Operations                                                              *)
(***************************************************************************)
\* Interpolator::new(): Self::default()
new == [x_vals |-> <<>>, y_vals |-> <<>>]

\* init that keeps only as many ys as there are xs.
InitStoresZipped(xs, ys) ==
    [x_vals |-> xs,
     y_vals |-> IF Len(ys) > Len(xs) THEN SubSeq(ys, 1, Len(xs)) ELSE ys]

\* What Interpolator::init stores for the arguments (xs, ys).
InitStores(xs, ys) == [x_vals |-> xs, y_vals |-> ys]

\* A query that takes the table by &mut and drops its last sample.
AfterQueryPops(self, x) ==
    [x_vals |-> IF Len(self.x_vals) = 0 THEN self.x_vals
                ELSE SubSeq(self.x_vals, 1, Len(self.x_vals) - 1),
     y_vals |-> self.y_vals]

\* What a query leaves in the table: interpolate takes &self.
AfterQuery(self, x) == self

Self == [x_vals |-> x_vals, y_vals |-> y_vals]

init(xs, ys) ==
    /\ x_vals' = InitStores(xs, ys).x_vals
    /\ y_vals' = InitStores(xs, ys).y_vals
    /\ last' = [op |-> "init", xs |-> xs, ys |-> ys]
    /\ loaded' = [xs |-> xs, ys |-> ys]
    /\ UNCHANGED <<search, dvars>>

Query1D(x) ==
    /\ last' = [op |-> "interpolate", x |-> x,
                ret |-> Interpolate1D(search, x, x_vals, y_vals)]
    /\ x_vals' = AfterQuery(Self, x).x_vals
    /\ y_vals' = AfterQuery(Self, x).y_vals
    /\ UNCHANGED <<search, loaded, dvars>>

QueryND(x) ==
    /\ last' = [op |-> "interpolate", x |-> x,
                ret |-> InterpolateND(search, x, x_vals, y_vals)]
    /\ x_vals' = AfterQuery(Self, x).x_vals
    /\ y_vals' = AfterQuery(Self, x).y_vals
    /\ UNCHANGED <<search, loaded, dvars>>

\* The callers of create_incremented_directory, and the entries of `path`.
Procs == {1, 2}
Slots == 0..MaxRun
EntryKinds == {"absent", "dir", "file", "dangling", "loop"}
NoRet == [kind |-> "none"]
NoPre == [path |-> "absent", runs |-> [i \in Slots |-> "absent"]]

\* No call to create_incremented_directory has been made or is made.
DirIdle ==
    /\ path = "absent"
    /\ runs = [i \in Slots |-> "absent"]
    /\ pc = [p \in Procs |-> "idle"]
    /\ idx = [p \in Procs |-> 0]
    /\ pre = [p \in Procs |-> NoPre]
    /\ ret = [p \in Procs |-> NoRet]
    /\ returned = <<>>
    /\ fresh = TRUE

Init1D ==
    /\ DirIdle
    /\ x_vals = new.x_vals
    /\ y_vals = new.y_vals
    /\ search \in {"branchless", "narrow"}
    /\ last = [op |-> "new"]
    /\ loaded = [xs |-> <<>>, ys |-> <<>>]

\* Every table a caller may build, and the few a caller swaps in for a
\* table that is already populated.
XTables == SeqsUpTo(TableX, MaxLen)
YTables == SeqsUpTo(TableY, MaxLen)
XReinit == {<<>>, <<One>>}
YReinit == {<<>>, <<One>>}

Next1D ==
    \/ /\ Len(x_vals) = 0 /\ Len(y_vals) = 0
       /\ \E xs \in XTables, ys \in YTables : init(xs, ys)
    \/ \E xs \in XReinit, ys \in YReinit : init(xs, ys)
    \/ \E x \in QueryX : Query1D(x)

Spec1D == Init1D /\ [][Next1D]_vars

\* The n-D interpolator: x_vals sorted in the total order, y_vals vectors of
\* one common length.
SortedXTablesND ==
    {xs \in SeqsUpTo(TableXND, MaxLenND) :
        \A i \in 1..(Len(xs) - 1) : total_cmp(xs[i], xs[i + 1]) # "Greater"}
VectorsOfDim(k) == {v \in SeqsUpTo(TableY, k) : Len(v) = k}
YTablesND == UNION {SeqsUpTo(VectorsOfDim(k), MaxLenND) : k \in 1..MaxDim}

NextND ==
    \/ /\ Len(x_vals) = 0 /\ Len(y_vals) = 0
       /\ \E xs \in SortedXTablesND, ys \in YTablesND : init(xs, ys)
    \/ \E xs \in XReinit, ys \in {<<>>, <<(<<One>>)>>} : init(xs, ys)
    \/ \E x \in QueryX : QueryND(x)

SpecND == Init1D /\ [][NextND]_vars

(***************************************************************************)
(* Properties of the 1-D interpolator (checked under Spec1D)               *)
(***************************************************************************)
Queried == last.op = "interpolate"

\* Strictly ascending under the ordinary comparison of f64.
StrictlyAscending(xs) == \A i \in 1..(Len(xs) - 1) : Lt(xs[i], xs[i + 1])

\* Ascending under the total order the search compares with.
SortedTotal(xs) == \A i \in 1..(Len(xs) - 1) : total_cmp(xs[i], xs[i + 1]) # "Greater"

AllFinite(xs) == \A i \in 1..Len(xs) : xs[i].k = "fin"

\* C1: on a strictly ascending table with matched lengths, a query strictly
\* between the consecutive samples k-1 and k returns the upper sample x_vals[k]
\* and the blend (1-d)*y_vals[k-1] + d*y_vals[k], d = (x-x_vals[k-1])/(x_vals[k]-x_vals[k-1]).
C1_Bracketed ==
    (Queried /\ StrictlyAscending(x_vals) /\ Len(y_vals) = Len(x_vals)) =>
        \A k \in 1..(Len(x_vals) - 1) :
            (Lt(At(x_vals, k - 1), last.x) /\ Lt(last.x, At(x_vals, k))) =>
                LET lo == At(x_vals, k - 1)
                    hi == At(x_vals, k)
                    d == Div(Add(last.x, Neg(lo)), Add(hi, Neg(lo)))
                IN  last.ret =
                        [kind |-> "Ok", x |-> hi,
                         y |-> Add(Mul(Add(One, Neg(d)), At(y_vals, k - 1)),
                                   Mul(d, At(y_vals, k)))]

\* A query strictly inside a bracket returned a value that is neither stored sample.
C1_Witness ==
    /\ Queried /\ StrictlyAscending(x_vals) /\ Len(y_vals) = Len(x_vals)
    /\ \E k \in 1..(Len(x_vals) - 1) :
          /\ Lt(At(x_vals, k - 1), last.x) /\ Lt(last.x, At(x_vals, k))
          /\ last.ret.kind = "Ok"
          /\ last.ret.x = At(x_vals, k)
          /\ last.ret.x # last.x
          /\ last.ret.y \notin {At(y_vals, k - 1), At(y_vals, k)}

\* C2 as stated: on a sorted table of finite values with matched lengths, a query equal in the
\* total order to the entry x_vals[i] returns Ok((x_vals[i], y_vals[i])).
C2_Original ==
    (Queried /\ AllFinite(x_vals) /\ SortedTotal(x_vals) /\ Len(y_vals) = Len(x_vals)) =>
        \A i \in 0..(Len(x_vals) - 1) :
            total_cmp(At(x_vals, i), last.x) = "Equal" =>
                last.ret = [kind |-> "Ok", x |-> At(x_vals, i), y |-> At(y_vals, i)]

\* C2 as amended: for a non-NaN query equal in the total order to some entry of
\* a sorted table with matched lengths, the call returns the stored pair
\* (x_vals[j], y_vals[j]) of an entry j equal to the query, with no arithmetic
\* applied; that entry is i itself when the query occurs once in x_vals.
C2_ExactMatch ==
    (Queried /\ SortedTotal(x_vals) /\ Len(y_vals) = Len(x_vals) /\ ~is_nan(last.x)) =>
        LET hits == {i \in 0..(Len(x_vals) - 1) : total_cmp(At(x_vals, i), last.x) = "Equal"}
        IN  hits # {} =>
                \E j \in hits :
                    last.ret = [kind |-> "Ok", x |-> At(x_vals, j), y |-> At(y_vals, j)]

\* An exact match on the first entry of a table with more than one entry.
C2_Witness ==
    /\ Queried /\ SortedTotal(x_vals) /\ Len(y_vals) = Len(x_vals) /\ ~is_nan(last.x)
    /\ Len(x_vals) > 1
    /\ total_cmp(At(x_vals, 0), last.x) = "Equal"
    /\ last.ret = [kind |-> "Ok", x |-> At(x_vals, 0), y |-> At(y_vals, 0)]

\* C3: on a non-empty table a non-NaN query below the first or above the last
\* entry returns OutOfBounds{x, x_min = first, x_max = last}, never Ok.
C3_OutOfBounds ==
    (/\ Queried /\ Len(x_vals) > 0 /\ ~is_nan(last.x)
     /\ (Lt(last.x, At(x_vals, 0)) \/ Gt(last.x, At(x_vals, Len(x_vals) - 1)))) =>
        last.ret = [kind |-> "OutOfBounds", x |-> last.x,
                    x_min |-> At(x_vals, 0),
                    x_max |-> At(x_vals, Len(x_vals) - 1)]

\* A query above the last entry of a table whose ends differ was refused.
C3_Witness ==
    /\ Queried /\ Len(x_vals) > 1 /\ ~is_nan(last.x)
    /\ Gt(last.x, At(x_vals, Len(x_vals) - 1))
    /\ At(x_vals, 0) # At(x_vals, Len(x_vals) - 1)
    /\ last.ret.kind = "OutOfBounds"

\* C4: a NaN query returns Err(NaN) whatever the table holds.
C4_NaN == (Queried /\ is_nan(last.x)) => last.ret = [kind |-> "NaN"]

\* A NaN query was answered on the empty table.
C4_Witness ==
    /\ Queried /\ is_nan(last.x) /\ Len(x_vals) = 0
    /\ last.ret.kind = "NaN"

\* C7 as stated: x_vals and y_vals have the same length in every state reached
\* by new() and init calls.
C7_Original == (last.op \in {"new", "init"}) => Len(x_vals) = Len(y_vals)

\* C7 as amended: after new() both sequences are empty, and after
\* init(xs, ys) the table holds exactly xs and ys, so the lengths agree
\* exactly when the caller's arguments have the same length.
C7_LengthsFollowArguments ==
    /\ last.op = "new" => (Len(x_vals) = 0 /\ Len(y_vals) = 0)
    /\ last.op = "init" =>
          /\ x_vals = last.xs /\ y_vals = last.ys
          /\ (Len(x_vals) = Len(y_vals)) <=> (Len(last.xs) = Len(last.ys))

\* init was called with a longer ys than xs.
C7_Witness ==
    /\ last.op = "init"
    /\ Len(last.xs) > 0 /\ Len(last.ys) > Len(last.xs)
    /\ Len(y_vals) > Len(x_vals)

\* C9: on a non-empty sorted table of finite values with matched lengths, a
\* non-NaN query that passes the bounds check and has no exact match gets an
\* insertion index i with 1 <= i <= len-1 and x_vals[i-1] < x < x_vals[i], and
\* the call returns Ok.
C9_InsertionIndexBrackets ==
    (/\ Queried /\ Len(x_vals) > 0 /\ AllFinite(x_vals) /\ SortedTotal(x_vals)
     /\ Len(y_vals) = Len(x_vals) /\ ~is_nan(last.x)
     /\ ~Lt(last.x, At(x_vals, 0)) /\ ~Gt(last.x, At(x_vals, Len(x_vals) - 1))) =>
        LET r == binary_search_by(search, x_vals, last.x)
        IN  ~r.ok =>
                /\ 1 <= r.i /\ r.i <= Len(x_vals) - 1
                /\ Lt(At(x_vals, r.i - 1), last.x) /\ Lt(last.x, At(x_vals, r.i))
                /\ last.ret.kind = "Ok"

\* C10: a non-NaN query on a table with no x entries does not return: the
\* bounds check indexes x_vals[0] and panics.
C10_EmptyTablePanics ==
    (Queried /\ ~is_nan(last.x) /\ Len(x_vals) = 0) => last.ret = [kind |-> "Panic"]

\* A non-NaN query was made right on the table new() built.
C10_Witness ==
    /\ Queried /\ ~is_nan(last.x)
    /\ x_vals = <<>> /\ y_vals = <<>>
    /\ last.ret.kind = "Panic"

\* C6: a query never changes the table: whatever it returns, x_vals and y_vals
\* are what the last init stored, and asking the same x again returns the same.
C6_QueryLeavesTable ==
    /\ [](Queried => (x_vals = loaded.xs /\ y_vals = loaded.ys))
    /\ [][(Queried' /\ UNCHANGED loaded) =>
             /\ x_vals' = x_vals /\ y_vals' = y_vals
             /\ (Queried /\ last'.x = last.x) => last'.ret = last.ret]_vars

\* A query returned Ok on a populated table that is still what init stored.
C6_Witness ==
    /\ Queried /\ last.ret.kind = "Ok"
    /\ Len(x_vals) > 1
    /\ x_vals = loaded.xs /\ y_vals = loaded.ys

(***************************************************************************)
(* The n-D interpolator against the 1-D one (checked under SpecND)         *)
(***************************************************************************)
\* The 1-D table of component j of every y vector.
Component(ys, j) == [i \in 1..Len(ys) |-> ys[i][j]]

\* The dimensions k such that every vector of ys has length k.
CommonDims(ys) == {k \in 1..MaxDim : \A i \in 1..Len(ys) : Len(ys[i]) = k}

\* C5: on a sorted table whose y vectors share the length k, the n-D result is
\* the tuple of the k 1-D results on the component tables: the same outcome,
\* the same matched x, and component j of the value is the j-th 1-D value.
C5_ComponentWise ==
    (Queried /\ SortedTotal(x_vals)) =>
        \A k \in CommonDims(y_vals) : \A j \in 1..k :
            LET r1 == Interpolate1D(search, last.x, x_vals, Component(y_vals, j))
            IN  IF last.ret.kind = "Ok"
                THEN /\ Len(last.ret.y) = k
                     /\ r1 = [kind |-> "Ok", x |-> last.ret.x, y |-> last.ret.y[j]]
                ELSE r1 = last.ret

\* A bracketed query on a 2-D table whose two components came out different.
C5_Witness ==
    /\ Queried /\ SortedTotal(x_vals) /\ 2 \in CommonDims(y_vals)
    /\ Len(y_vals) = Len(x_vals)
    /\ last.ret.kind = "Ok"
    /\ last.ret.x # last.x
    /\ last.ret.y[1] # last.ret.y[2]
    /\ \E i \in 1..Len(y_vals) : last.ret.y[1] # y_vals[i][1]

(***************************************************************************)
(* create_incremented_directory (src/file_io.rs)                           *)
(*                                                                         *)
(* An entry of the base directory is absent, a directory, a file, a        *)
(* symbolic link to nothing ("dangling") or a symbolic link onto itself    *)
(* ("loop").  Nothing in the model removes an entry.                       *)
(***************************************************************************)
\* Path::try_exists follows symbolic links: Ok(false) for a missing entry and
\* for a dangling link, Err for a link that cannot be resolved.
try_exists(kind) ==
    IF kind \in {"absent", "dangling"} THEN "false"
    ELSE IF kind = "loop" THEN "err"
    ELSE "true"

\* std::fs::create_dir_all on an entry of that kind: creates a missing
\* directory, accepts a directory that is there, fails on anything else.
create_dir_all(kind) ==
    IF kind = "absent" THEN [ok |-> TRUE, kind |-> "dir"]
    ELSE IF kind = "dir" THEN [ok |-> TRUE, kind |-> "dir"]
    ELSE [ok |-> FALSE, kind |-> kind]

\* The loop body with the test inverted: takes the first entry that exists.
LoopStepTakesExisting(i, kind) ==
    IF try_exists(kind) = "true" THEN [pc |-> "create", idx |-> i]
    ELSE [pc |-> "examine", idx |-> i + 1]

\* One pass of `for i in 0..usize::MAX`: on Ok(false) go on to create run_i,
\* otherwise try i + 1.
LoopStep(i, kind) ==
    IF try_exists(kind) = "false" THEN [pc |-> "create", idx |-> i]
    ELSE [pc |-> "examine", idx |-> i + 1]

Running == {p \in Procs : pc[p] \notin {"idle", "done"}}
FreeSlots == {i \in Slots : try_exists(runs[i]) = "false"}

\* A caller enters create_incremented_directory.  The model holds MaxRun + 1
\* entries, so a call begins only while an entry is left for it.
Call(p) ==
    /\ pc[p] \in {"idle", "done"}
    /\ Cardinality(FreeSlots) > Cardinality(Running)
    /\ pc' = [pc EXCEPT ![p] = "open"]
    /\ pre' = [pre EXCEPT ![p] = [path |-> path, runs |-> runs]]
    /\ ret' = [ret EXCEPT ![p] = NoRet]
    /\ idx' = [idx EXCEPT ![p] = 0]
    /\ UNCHANGED <<path, runs, returned, fresh, ivars>>

\* create_directory: open(path) and the test of metadata.is_dir().
CreateDirectoryOpen(p) ==
    /\ pc[p] = "open"
    /\ IF path = "dir"
       THEN pc' = [pc EXCEPT ![p] = "examine"] /\ UNCHANGED ret
       ELSE IF path = "file"
       THEN /\ pc' = [pc EXCEPT ![p] = "done"]
            /\ ret' = [ret EXCEPT ![p] = [kind |-> "InvalidType"]]
       ELSE pc' = [pc EXCEPT ![p] = "mkdir"] /\ UNCHANGED ret
    /\ UNCHANGED <<path, runs, idx, pre, returned, fresh, ivars>>

\* create_directory: std::fs::create_dir_all(path) after open failed.
CreateDirectoryMkdir(p) ==
    /\ pc[p] = "mkdir"
    /\ LET r == create_dir_all(path)
       IN  IF r.ok
           THEN /\ path' = r.kind
                /\ pc' = [pc EXCEPT ![p] = "examine"]
                /\ UNCHANGED ret
           ELSE /\ pc' = [pc EXCEPT ![p] = "done"]
                /\ ret' = [ret EXCEPT ![p] = [kind |-> "FileIo"]]
                /\ UNCHANGED path
    /\ UNCHANGED <<runs, idx, pre, returned, fresh, ivars>>

\* `if let Ok(false) = Path::new(&output_path).try_exists()`
Examine(p) ==
    /\ pc[p] = "examine"
    /\ LET step == LoopStep(idx[p], runs[idx[p]])
       IN  /\ step.idx \in Slots
           /\ pc' = [pc EXCEPT ![p] = step.pc]
           /\ idx' = [idx EXCEPT ![p] = step.idx]
    /\ UNCHANGED <<path, runs, pre, ret, returned, fresh, ivars>>

\* std::fs::create_dir_all(&output_path)?; return Ok(output_path)
Create(p) ==
    /\ pc[p] = "create"
    /\ LET r == create_dir_all(runs[idx[p]])
       IN  IF r.ok
           THEN /\ runs' = [runs EXCEPT ![idx[p]] = r.kind]
                /\ ret' = [ret EXCEPT ![p] = [kind |-> "Ok", n |-> idx[p]]]
                /\ returned' = Append(returned, idx[p])
           ELSE /\ ret' = [ret EXCEPT ![p] = [kind |-> "FileIo"]]
                /\ UNCHANGED <<runs, returned>>
    /\ pc' = [pc EXCEPT ![p] = "done"]
    /\ UNCHANGED <<path, idx, pre, fresh, ivars>>

\* The filesystem before any call: `path` missing, a file, or a directory
\* holding any entries.
InitDir ==
    /\ path \in {"absent", "dir", "file"}
    /\ runs \in [Slots -> EntryKinds]
    /\ path # "dir" => \A i \in Slots : runs[i] = "absent"
    /\ fresh = (\A i \in Slots : runs[i] = "absent")
    /\ pc = [p \in Procs |-> "idle"]
    /\ idx = [p \in Procs |-> 0]
    /\ pre = [p \in Procs |-> NoPre]
    /\ ret = [p \in Procs |-> NoRet]
    /\ returned = <<>>
    /\ x_vals = new.x_vals
    /\ y_vals = new.y_vals
    /\ search = "branchless"
    /\ last = [op |-> "new"]
    /\ loaded = [xs |-> <<>>, ys |-> <<>>]

\* The calls are made one after the other, by one caller.
NextDirSeq ==
    \/ Call(1)
    \/ CreateDirectoryOpen(1)
    \/ CreateDirectoryMkdir(1)
    \/ Examine(1)
    \/ Create(1)

SpecDirSeq == InitDir /\ [][NextDirSeq]_vars

\* The least entry that did not exist when the call began.
LowestUnused(before) ==
    CHOOSE n \in Slots :
        /\ before[n] = "absent"
        /\ \A m \in 0..(n - 1) : before[m] # "absent"

\* C8: a successful call returns run_n for the smallest n whose entry did not
\* exist; afterwards path and path/run_n are directories and every other
\* entry is as it was; successive calls on a fresh base return run_0, run_1, ...
C8_LowestUnusedSuffix ==
    /\ (pc[1] = "done" /\ ret[1].kind = "Ok") =>
          /\ \E n \in Slots : pre[1].runs[n] = "absent"
          /\ ret[1].n = LowestUnused(pre[1].runs)
          /\ path = "dir"
          /\ runs[ret[1].n] = "dir"
          /\ \A m \in Slots \ {ret[1].n} : runs[m] = pre[1].runs[m]
    /\ fresh => \A j \in 1..Len(returned) : returned[j] = j - 1

\* Two calls on a fresh base have returned, the second one run_1.
C8_Witness ==
    /\ fresh /\ pc[1] = "done"
    /\ ret[1] = [kind |-> "Ok", n |-> 1]
    /\ returned = <<0, 1>>
    /\ pre[1].runs[0] = "dir"

(***************************************************************************)
(* Concurrent callers of create_incremented_directory                      *)
(***************************************************************************)
\* Every caller runs the function on the same `path`; the steps of the calls
\* (each one system call) interleave in any order.
NextDirConc ==
    \/ \E p \in Procs : Call(p)
    \/ \E p \in Procs : CreateDirectoryOpen(p)
    \/ \E p \in Procs : CreateDirectoryMkdir(p)
    \/ \E p \in Procs : Examine(p)
    \/ \E p \in Procs : Create(p)

SpecDirConc == InitDir /\ [][NextDirConc]_vars

\* C11: with concurrent callers every successful call returns a directory it
\* created itself (the entry was missing when its create_dir_all ran), so no
\* run_n is returned twice.
C11_EachCallCreatesItsOwn ==
    /\ [](\A i, j \in 1..Len(returned) : i # j => returned[i] # returned[j])
    /\ [][\A p \in Procs :
             (pc[p] = "create" /\ pc'[p] = "done" /\ ret'[p].kind = "Ok") =>
                 runs[idx[p]] = "absent"]_vars

=============================================================================
